---- MODULE Spec2Model ----
(***************************************************************************)
(* TTM rate conversion service (api/main.py): the ttm_rates table, the     *)
(* rate lookup get_ttm_rate with its nearest-date fallback, the bulk       *)
(* update fetch_ttm_data, and the ledger run process_csv (row loop,        *)
(* monthly aggregation, summary, response).                                *)
(***************************************************************************)
EXTENDS Integers, Sequences, FiniteSets, TLC

VARIABLES
    ttm_rates,      \* rows of table ttm_rates: [date |-> text, rate |-> number]
    pc,             \* position of the process_csv request
    df,             \* the parsed data frame: [columns, rows]
    index,          \* number of data-frame rows the loop has consumed
    transactions,   \* process_csv's local list `transactions`
    errors,         \* process_csv's local list `errors`
    response,       \* what the request returned (payload or HTTP error)
    date_str,       \* argument of the last get_ttm_rate call
    ttm_rate        \* outcome of the last get_ttm_rate call

vars == <<ttm_rates, pc, df, index, transactions, errors, response, date_str, ttm_rate>>

(***************************************************************************)
(* Bounds                                                                  *)
(***************************************************************************)
MaxRows == 2

(***************************************************************************)
(* Text.  A string is a sequence of one-character strings; SQLite compares *)
(* TEXT byte by byte, so the order of the characters is their ASCII order. *)
(***************************************************************************)
Alphabet == <<"-", "0", "1", "2", "3", "4", "5", "6", "7", "8", "9">>

Digits == <<"0", "1", "2", "3", "4", "5", "6", "7", "8", "9">>

Ord(c) == CHOOSE i \in 1..Len(Alphabet) : Alphabet[i] = c

IsDigit(c) == \E i \in 1..Len(Digits) : Digits[i] = c

DigitValue(c) == (CHOOSE i \in 1..Len(Digits) : Digits[i] = c) - 1

DigitChar(n) == Digits[n + 1]

RECURSIVE TextLess(_, _)
TextLess(a, b) ==
    IF b = <<>> THEN FALSE
    ELSE IF a = <<>> THEN TRUE
    ELSE IF Ord(a[1]) < Ord(b[1]) THEN TRUE
    ELSE IF Ord(a[1]) > Ord(b[1]) THEN FALSE
    ELSE TextLess(Tail(a), Tail(b))

TextLeq(a, b) == a = b \/ TextLess(a, b)

RECURSIVE NumberOf(_)
NumberOf(s) ==
    IF s = <<>> THEN 0
    ELSE 10 * NumberOf(SubSeq(s, 1, Len(s) - 1)) + DigitValue(s[Len(s)])

AllDigits(s) == s # <<>> /\ \A i \in 1..Len(s) : IsDigit(s[i])

\* str.split(sep): the pieces between the separators, in order
RECURSIVE Split(_, _)
Split(s, sep) ==
    IF \A i \in 1..Len(s) : s[i] # sep THEN <<s>>
    ELSE LET k == CHOOSE i \in 1..Len(s) :
                      s[i] = sep /\ \A j \in 1..(i - 1) : s[j] # sep
         IN  <<SubSeq(s, 1, k - 1)>> \o Split(SubSeq(s, k + 1, Len(s)), sep)

\* str.replace(c, ''): every occurrence of the character removed
Remove(s, c) == SelectSeq(s, LAMBDA x : x # c)

Pad2(n) == <<DigitChar(n \div 10), DigitChar(n % 10)>>

Pad4(n) == <<DigitChar(n \div 1000), DigitChar((n \div 100) % 10),
             DigitChar((n \div 10) % 10), DigitChar(n % 10)>>

(***************************************************************************)
(* Calendar dates, their parsing and formatting                            *)
(***************************************************************************)
Date(y, m, d) == [year |-> y, month |-> m, day |-> d]

DaysIn(y, m) ==
    IF m \in {4, 6, 9, 11} THEN 30
    ELSE IF m # 2 THEN 31
    ELSE IF (y % 4 = 0 /\ y % 100 # 0) \/ y % 400 = 0 THEN 29 ELSE 28

\* strftime('%Y-%m-%d')
ToIso(dt) == Pad4(dt.year) \o <<"-">> \o Pad2(dt.month) \o <<"-">> \o Pad2(dt.day)

\* strftime('%Y-%m')
ToMonth(dt) == Pad4(dt.year) \o <<"-">> \o Pad2(dt.month)

\* the ledger's date text, MM-DD-YYYY
ToMdy(dt) == Pad2(dt.month) \o <<"-">> \o Pad2(dt.day) \o <<"-">> \o Pad4(dt.year)

ValueError == [raised |-> "ValueError"]

\* strptime / to_datetime with format '%m-%d-%Y'
ParseMdy(text) ==
    LET f == Split(text, "-")
    IN  IF /\ Len(f) = 3
           /\ AllDigits(f[1]) /\ Len(f[1]) <= 2
           /\ AllDigits(f[2]) /\ Len(f[2]) <= 2
           /\ AllDigits(f[3]) /\ Len(f[3]) = 4
           /\ NumberOf(f[1]) \in 1..12
           /\ NumberOf(f[3]) >= 1
           /\ NumberOf(f[2]) \in 1..DaysIn(NumberOf(f[3]), NumberOf(f[1]))
        THEN Date(NumberOf(f[3]), NumberOf(f[1]), NumberOf(f[2]))
        ELSE ValueError

(***************************************************************************)
(* The rate table and get_ttm_rate                                         *)
(***************************************************************************)
HttpError(code, what) == [raised |-> "HTTPException", status_code |-> code, detail |-> what]

Found(rate) == [raised |-> "none", rate |-> rate]

\* SELECT ... ORDER BY date DESC LIMIT 1 over a non-empty set of rows
LastByDate(rows) == CHOOSE r \in rows : \A o \in rows : TextLeq(o.date, r.date)

\* SELECT ... ORDER BY date ASC LIMIT 1 over a non-empty set of rows
FirstByDate(rows) == CHOOSE r \in rows : \A o \in rows : TextLeq(r.date, o.date)

GetTtmRateAscending(text, table) ==
    IF Len(Split(text, "-")) # 3
    THEN HttpError(400, "Invalid date format")
    ELSE LET exact  == {r \in table : r.date = text}
             past   == {r \in table : TextLeq(r.date, text)}
             future == {r \in table : TextLeq(text, r.date)}
         IN  IF exact # {} THEN Found((CHOOSE r \in exact : TRUE).rate)
             ELSE IF past # {} THEN Found(FirstByDate(past).rate)
             ELSE IF future # {} THEN Found(FirstByDate(future).rate)
             ELSE HttpError(404, "No TTM rate available")

GetTtmRateNoFuture(text, table) ==
    IF Len(Split(text, "-")) # 3
    THEN HttpError(400, "Invalid date format")
    ELSE LET exact  == {r \in table : r.date = text}
             past   == {r \in table : TextLeq(r.date, text)}
         IN  IF exact # {} THEN Found((CHOOSE r \in exact : TRUE).rate)
             ELSE IF past # {} THEN Found(LastByDate(past).rate)
             ELSE HttpError(404, "No TTM rate available")

\* get_ttm_rate(date_str) against the rows of ttm_rates.  A text of three
\* '-'-separated parts is taken as it is; any other text goes to
\* strptime('%m-%d-%Y'), which needs exactly two '-' and so always fails.
GetTtmRate(text, table) ==
    IF Len(Split(text, "-")) # 3
    THEN HttpError(400, "Invalid date format")
    ELSE LET exact  == {r \in table : r.date = text}
             past   == {r \in table : TextLeq(r.date, text)}
             future == {r \in table : TextLeq(text, r.date)}
         IN  IF exact # {} THEN Found((CHOOSE r \in exact : TRUE).rate)
             ELSE IF past # {} THEN Found(LastByDate(past).rate)
             ELSE IF future # {} THEN Found(FirstByDate(future).rate)
             ELSE HttpError(404, "No TTM rate available")

\* INSERT OR REPLACE of every (date, rate) of the batch, in one transaction
Upsert(table, batch) ==
    {r \in table : \A b \in batch : b.date # r.date} \cup batch

(***************************************************************************)
(* Numbers.  A Python float is a fraction in lowest terms, or NaN; the     *)
(* rounding of binary floating point is not modelled.                      *)
(***************************************************************************)
RECURSIVE Gcd(_, _)
Gcd(a, b) == IF b = 0 THEN a ELSE Gcd(b, a % b)

Abs(n) == IF n < 0 THEN -n ELSE n

NaN == [nan |-> TRUE, num |-> 0, den |-> 1]

Frac(n, d) ==
    LET s == IF d < 0 THEN -1 ELSE 1
        g == Gcd(Abs(n), Abs(d))
    IN  [nan |-> FALSE, num |-> (s * n) \div g, den |-> (s * d) \div g]

Num(n) == Frac(n, 1)

Add(a, b) == IF a.nan \/ b.nan THEN NaN ELSE Frac(a.num * b.den + b.num * a.den, a.den * b.den)

Mul(a, b) == IF a.nan \/ b.nan THEN NaN ELSE Frac(a.num * b.num, a.den * b.den)

\* a / b for b # 0
Div(a, b) == IF a.nan \/ b.nan THEN NaN ELSE Frac(a.num * b.den, a.den * b.num)

\* bool(x) of a float: false for 0 only (NaN is true)
Truthy(a) == a.nan \/ a.num # 0

\* sum(...) of a list of floats, left to right from 0
RECURSIVE Sum(_)
Sum(s) == IF s = <<>> THEN Num(0) ELSE Add(Sum(SubSeq(s, 1, Len(s) - 1)), s[Len(s)])

(***************************************************************************)
(* Cells of the uploaded ledger                                            *)
(***************************************************************************)
Blank == <<>>

\* str(cell): pandas reads an empty field as NaN, whose text is 'nan'
CellText(cell) == IF cell = Blank THEN <<"n", "a", "n">> ELSE cell

\* float(text) after .replace(',', '').replace('$', '').strip()
ParseAmount(text) ==
    LET cleaned == Remove(Remove(text, ","), "$")
    IN  IF cleaned = <<"n", "a", "n">> THEN NaN
        ELSE IF AllDigits(cleaned) THEN Num(NumberOf(cleaned))
        ELSE ValueError

PaymentFrom == "Payment from "

\* vendor: the description without 'Payment from ', or 'Unknown'
VendorOf(description) ==
    IF \E i \in 1..Len(description) : description[i] = PaymentFrom
    THEN SelectSeq(description, LAMBDA w : w # PaymentFrom)
    ELSE <<"Unknown">>

(***************************************************************************)
(* One iteration of the row loop of process_csv                            *)
(***************************************************************************)
Raised(x) == "raised" \in DOMAIN x

RowError(idx, what, lookedUp) ==
    [kind |-> "error", looked_up |-> lookedUp,
     error |-> [row |-> idx + 1, error |-> what]]

\* str(row.get('Description', ''))
DescriptionOf(row) ==
    IF "Description" \in DOMAIN row THEN CellText(row["Description"]) ELSE <<>>

\* the body of `for index, row in df.iterrows()`: a transaction to append, or
\* an error message to append
ProcessRowOutcome(row, idx, table) ==
    LET date_obj == ParseMdy(row["Transaction date"])
    IN  IF Raised(date_obj) THEN RowError(idx, "ValueError", FALSE)
        ELSE
        LET iso_date   == ToIso(date_obj)
            amount_usd == ParseAmount(CellText(row["Credit amount"]))
        IN  IF Raised(amount_usd) THEN RowError(idx, "ValueError", FALSE)
            ELSE
            LET rate == GetTtmRate(iso_date, table)
            IN  IF rate.raised = "HTTPException"
                THEN RowError(idx, "No TTM rate available", TRUE)
                ELSE [kind |-> "transaction", looked_up |-> TRUE,
                      transaction |->
                          [date       |-> iso_date,
                           amount_usd |-> amount_usd,
                           ttm_rate   |-> Num(rate.rate),
                           amount_jpy |-> Mul(amount_usd, Num(rate.rate)),
                           month      |-> ToMonth(date_obj),
                           vendor     |-> VendorOf(DescriptionOf(row))]]

\* `continue` and the for statement: the loop goes on with the next row,
\* whether the row gave a transaction or an error
NextIndexStoppingAtError(idx, outcome, n) ==
    IF outcome.kind = "error" THEN n ELSE idx + 1

NextIndex(idx, outcome, n) == idx + 1

(***************************************************************************)
(* Monthly aggregation and summary                                         *)
(***************************************************************************)
NewBucket(month) ==
    [month |-> month, total_usd |-> Num(0), total_jpy |-> Num(0),
     transaction_count |-> 0, vendor_transactions |-> <<>>]

NewVendor == [usd |-> Num(0), jpy |-> Num(0), count |-> 0]

HasMonth(monthly_data, month) ==
    \E i \in 1..Len(monthly_data) : monthly_data[i].month = month

AddToMonthlyAfterCreate(monthly_data, t) ==
    IF ~HasMonth(monthly_data, t.month)
    THEN Append(monthly_data, NewBucket(t.month))
    ELSE LET k == CHOOSE i \in 1..Len(monthly_data) : monthly_data[i].month = t.month
             b == monthly_data[k]
             vt == IF t.vendor \in DOMAIN b.vendor_transactions
                   THEN b.vendor_transactions
                   ELSE b.vendor_transactions @@ (t.vendor :> NewVendor)
         IN  [monthly_data EXCEPT ![k] =
                 [month |-> b.month,
                  total_usd |-> Add(b.total_usd, t.amount_usd),
                  total_jpy |-> Add(b.total_jpy, t.amount_jpy),
                  transaction_count |-> b.transaction_count + 1,
                  vendor_transactions |->
                      [vt EXCEPT ![t.vendor] =
                          [usd   |-> Add(vt[t.vendor].usd, t.amount_usd),
                           jpy   |-> Add(vt[t.vendor].jpy, t.amount_jpy),
                           count |-> vt[t.vendor].count + 1]]]]

AddToMonthlyVendorOverwritten(monthly_data, t) ==
    LET md == IF HasMonth(monthly_data, t.month) THEN monthly_data
              ELSE Append(monthly_data, NewBucket(t.month))
        k  == CHOOSE i \in 1..Len(md) : md[i].month = t.month
        b  == md[k]
    IN  [md EXCEPT ![k] =
            [month |-> b.month,
             total_usd |-> Add(b.total_usd, t.amount_usd),
             total_jpy |-> Add(b.total_jpy, t.amount_jpy),
             transaction_count |-> b.transaction_count + 1,
             vendor_transactions |->
                 [v \in DOMAIN b.vendor_transactions \cup {t.vendor} |->
                     IF v = t.vendor
                     THEN [usd |-> t.amount_usd, jpy |-> t.amount_jpy, count |-> 1]
                     ELSE b.vendor_transactions[v]]]]

\* one pass of `for transaction in transactions` over monthly_data, kept
\* in the order the months were first seen (dict insertion order)
AddToMonthly(monthly_data, t) ==
    LET md == IF HasMonth(monthly_data, t.month) THEN monthly_data
              ELSE Append(monthly_data, NewBucket(t.month))
        k  == CHOOSE i \in 1..Len(md) : md[i].month = t.month
        b  == md[k]
        vt == IF t.vendor \in DOMAIN b.vendor_transactions
              THEN b.vendor_transactions
              ELSE b.vendor_transactions @@ (t.vendor :> NewVendor)
    IN  [md EXCEPT ![k] =
            [month |-> b.month,
             total_usd |-> Add(b.total_usd, t.amount_usd),
             total_jpy |-> Add(b.total_jpy, t.amount_jpy),
             transaction_count |-> b.transaction_count + 1,
             vendor_transactions |->
                 [vt EXCEPT ![t.vendor] =
                     [usd   |-> Add(vt[t.vendor].usd, t.amount_usd),
                      jpy   |-> Add(vt[t.vendor].jpy, t.amount_jpy),
                      count |-> vt[t.vendor].count + 1]]]]

\* monthly = list(monthly_data.values())
RECURSIVE Monthly(_)
Monthly(txs) ==
    IF txs = <<>> THEN <<>>
    ELSE AddToMonthly(Monthly(SubSeq(txs, 1, Len(txs) - 1)), txs[Len(txs)])

AmountsUsd(txs) == [i \in 1..Len(txs) |-> txs[i].amount_usd]

AmountsJpy(txs) == [i \in 1..Len(txs) |-> txs[i].amount_jpy]

Rates(txs) == [i \in 1..Len(txs) |-> txs[i].ttm_rate]

SummaryMeanOfRates(txs) ==
    [totalTransactions |-> Len(txs),
     totalUsd |-> Sum(AmountsUsd(txs)),
     totalJpy |-> Sum(AmountsJpy(txs)),
     averageTtmRate |-> IF Len(txs) # 0
                        THEN Div(Sum(Rates(txs)), Num(Len(txs)))
                        ELSE Num(0)]

Summary(txs) ==
    LET total_usd == Sum(AmountsUsd(txs))
        total_jpy == Sum(AmountsJpy(txs))
    IN  [totalTransactions |-> Len(txs),
         totalUsd |-> total_usd,
         totalJpy |-> total_jpy,
         averageTtmRate |-> IF Truthy(total_usd) THEN Div(total_jpy, total_usd)
                            ELSE Num(0)]

(***************************************************************************)
(* Responses of process_csv                                                *)
(***************************************************************************)
NoResponse == [kind |-> "none"]

\* an HTTPException raised outside the handler's try block
ErrorResponse(e) ==
    [kind |-> "error", status_code |-> e.status_code, detail |-> e.detail,
     cause |-> "none", cause_status |-> 0, cause_detail |-> "", errors |-> <<>>]

\* `except Exception as e`: whatever was raised inside the try block, an
\* HTTPException included, leaves as a 500 that names the exception
OuterExcept(e, errs) ==
    [kind |-> "error", status_code |-> 500, detail |-> "Error processing CSV",
     cause |-> e.raised,
     cause_status |-> IF "status_code" \in DOMAIN e THEN e.status_code ELSE 0,
     cause_detail |-> IF "detail" \in DOMAIN e THEN e.detail ELSE "",
     errors |-> errs]

RespondIgnoringErrors(txs, errs) ==
    [kind |-> "payload", transactions |-> txs,
     monthly |-> Monthly(txs), summary |-> Summary(txs)]

\* after the loop: the collected errors fail the request, else the payload
Respond(txs, errs) ==
    IF errs # <<>>
    THEN OuterExcept(HttpError(500, "Error processing CSV"), errs)
    ELSE [kind |-> "payload", transactions |-> txs,
          monthly |-> Monthly(txs), summary |-> Summary(txs)]

(***************************************************************************)
(* Inputs: published rate sheets and uploaded ledgers                      *)
(***************************************************************************)
\* the (date, rate) pairs a fetched sheet can hold
Sheet ==
    {[date |-> Date(2024, 1, 10), rate |-> 140],
     [date |-> Date(2024, 2, 1),  rate |-> 142]}

\* a wider sheet for the lookups checked on their own
WideSheet ==
    {[date |-> Date(2023, 12, 31), rate |-> 139],
     [date |-> Date(2024, 1, 2),   rate |-> 140],
     [date |-> Date(2024, 1, 10),  rate |-> 141],
     [date |-> Date(2024, 2, 1),   rate |-> 142],
     [date |-> Date(2024, 10, 9),  rate |-> 150]}

QueryDates ==
    {e.date : e \in WideSheet} \cup {Date(2023, 1, 1), Date(2024, 1, 5), Date(2024, 12, 1)}

\* ttm_data as bound to the INSERT statement: ISO date text and rate
RateRows(entries) == {[date |-> ToIso(e.date), rate |-> e.rate] : e \in entries}

AllColumns == {"Transaction date", "Credit amount", "Debit amount", "Description"}

ColumnSets == {AllColumns, AllColumns \ {"Credit amount"}}

Row(date, credit, debit, description) ==
    [c \in AllColumns |->
        CASE c = "Transaction date" -> date
          [] c = "Credit amount"    -> credit
          [] c = "Debit amount"     -> debit
          [] OTHER                  -> description]

LedgerDates == {Date(2024, 1, 15), Date(2024, 2, 1)}

\* credits: 100 from Acme or $50 from Bolt, on either date
CreditRows ==
    {Row(ToMdy(d), p[1], Blank, <<PaymentFrom, p[2]>>) :
        d \in LedgerDates, p \in {<<<<"1", "0", "0">>, "Acme">>, <<<<"$", "5", "0">>, "Bolt">>}}

DebitRows ==
    {Row(ToMdy(d), Blank, <<"3", "0">>, <<"Withdrawal">>) : d \in LedgerDates}

OtherRows ==
    {Row(ToMdy(Date(2024, 2, 1)), <<"1", "0", "0">>, <<"3", "0">>, <<PaymentFrom, "Acme">>),
     Row(ToMdy(Date(2024, 2, 1)), Blank, Blank, <<"Withdrawal">>),
     Row(ToMdy(Date(2024, 2, 1)), <<"0">>, Blank, <<PaymentFrom, "Acme">>),
     Row(ToIso(Date(2024, 1, 15)), <<"1", "0", "0">>, Blank, <<PaymentFrom, "Acme">>),
     Row(ToMdy(Date(2024, 1, 15)), <<"a", "b">>, Blank, <<PaymentFrom, "Bolt">>)}

RowSet == CreditRows \cup DebitRows \cup OtherRows

Restrict(row, columns) == [c \in columns |-> row[c]]

\* what pd.read_csv can return: the columns found and the rows under them
FramesOf(n) ==
    {[columns |-> cols, rows |-> [i \in 1..n |-> Restrict(rs[i], cols)]] :
        cols \in ColumnSets, rs \in [1..n -> RowSet]}

Frames == UNION {FramesOf(n) : n \in 0..MaxRows}

NoFrame == [columns |-> {}, rows |-> <<>>]

\* an upload: a file that is no .csv, bytes that are no UTF-8, text that is
\* no CSV, or a ledger
Uploads ==
    {[kind |-> k, frame |-> NoFrame] : k \in {"not_csv", "undecodable", "unparsable"}}
    \cup {[kind |-> "csv", frame |-> f] : f \in Frames}

NoCall == [raised |-> "nothing"]

(***************************************************************************)
(* The service                                                             *)
(***************************************************************************)
Init ==
    /\ ttm_rates = {}
    /\ pc = "idle"
    /\ df = NoFrame
    /\ index = 0
    /\ transactions = <<>>
    /\ errors = <<>>
    /\ response = NoResponse
    /\ date_str = <<>>
    /\ ttm_rate = NoCall

\* fetch_ttm_data: the rows parsed from the sheet are written in one commit
FetchTtmData ==
    /\ \E batch \in (SUBSET Sheet) \ {{}} :
           ttm_rates' = Upsert(ttm_rates, RateRows(batch))
    /\ UNCHANGED <<pc, df, index, transactions, errors, response, date_str, ttm_rate>>

required_columns == <<"Transaction date", "Credit amount">>

missing_columns(frame) == SelectSeq(required_columns, LAMBDA col : col \notin frame.columns)

\* process_csv up to the row loop: what stops the request before it
BeforeLoop(file) ==
    IF file.kind = "not_csv"
    THEN ErrorResponse(HttpError(400, "Only CSV files are supported"))
    ELSE IF file.kind = "undecodable"
    THEN OuterExcept(HttpError(400, "Error decoding CSV file"), <<>>)
    ELSE IF file.kind = "unparsable"
    THEN OuterExcept(HttpError(400, "Error parsing CSV file"), <<>>)
    ELSE IF missing_columns(file.frame) # <<>>
    THEN OuterExcept(HttpError(400, "Missing required columns"), <<>>)
    ELSE IF Len(file.frame.rows) = 0
    THEN OuterExcept([raised |-> "IndexError"], <<>>)
    ELSE NoResponse

\* POST /api/process arrives with a file
ProcessCsv ==
    /\ pc = "idle"
    /\ \E file \in Uploads :
          /\ response' = BeforeLoop(file)
          /\ df' = file.frame
          /\ pc' = IF BeforeLoop(file) = NoResponse THEN "rows" ELSE "done"
    /\ UNCHANGED <<ttm_rates, index, transactions, errors, date_str, ttm_rate>>

\* one iteration of the row loop
ProcessRow ==
    /\ pc = "rows"
    /\ index < Len(df.rows)
    /\ LET outcome == ProcessRowOutcome(df.rows[index + 1], index, ttm_rates)
       IN  /\ transactions' = IF outcome.kind = "transaction"
                              THEN Append(transactions, outcome.transaction)
                              ELSE transactions
           /\ errors' = IF outcome.kind = "error"
                        THEN Append(errors, outcome.error)
                        ELSE errors
           /\ date_str' = IF outcome.looked_up
                          THEN ToIso(ParseMdy(df.rows[index + 1]["Transaction date"]))
                          ELSE date_str
           /\ ttm_rate' = IF outcome.looked_up
                          THEN GetTtmRate(ToIso(ParseMdy(df.rows[index + 1]["Transaction date"])),
                                          ttm_rates)
                          ELSE ttm_rate
           /\ index' = NextIndex(index, outcome, Len(df.rows))
    /\ UNCHANGED <<ttm_rates, pc, df, response>>

\* the loop is over: errors, aggregation, summary, response
Finish ==
    /\ pc = "rows"
    /\ index >= Len(df.rows)
    /\ response' = Respond(transactions, errors)
    /\ pc' = "done"
    /\ UNCHANGED <<ttm_rates, df, index, transactions, errors, date_str, ttm_rate>>

Next == FetchTtmData \/ ProcessCsv \/ ProcessRow \/ Finish

Spec == Init /\ [][Next]_vars

(***************************************************************************)
(* get_ttm_rate on its own: any table, any query                           *)
(***************************************************************************)
Queries ==
    {ToIso(d) : d \in QueryDates} \cup {Remove(ToIso(Date(2024, 1, 5)), "-")}

InitRate ==
    /\ ttm_rates \in {RateRows(entries) : entries \in SUBSET WideSheet}
    /\ pc = "idle"
    /\ df = NoFrame
    /\ index = 0
    /\ transactions = <<>>
    /\ errors = <<>>
    /\ response = NoResponse
    /\ date_str = <<>>
    /\ ttm_rate = NoCall

GetRate ==
    /\ \E q \in Queries :
          /\ date_str' = q
          /\ ttm_rate' = GetTtmRate(q, ttm_rates)
    /\ UNCHANGED <<ttm_rates, pc, df, index, transactions, errors, response>>

NextRate == GetRate

SpecRate == InitRate /\ [][NextRate]_vars

(***************************************************************************)
(* Properties of get_ttm_rate (checked under SpecRate)                     *)
(***************************************************************************)
DateLess(a, b) ==
    \/ a.year < b.year
    \/ a.year = b.year /\ a.month < b.month
    \/ a.year = b.year /\ a.month = b.month /\ a.day < b.day

KnownDates == QueryDates \cup {e.date : e \in Sheet} \cup LedgerDates

DateOfText(text) == CHOOSE d \in KnownDates : ToIso(d) = text

WellFormedQuery(text) == \E d \in KnownDates : ToIso(d) = text

Called == ttm_rate.raised # "nothing"

StoredDates == {DateOfText(r.date) : r \in ttm_rates}

RateStoredFor(d) == (CHOOSE r \in ttm_rates : r.date = ToIso(d)).rate

EarlierStored(q) == {s \in StoredDates : DateLess(s, q)}

LaterStored(q) == {s \in StoredDates : DateLess(q, s)}

Latest(dates) == CHOOSE d \in dates : \A o \in dates : ~DateLess(d, o)

Earliest(dates) == CHOOSE d \in dates : \A o \in dates : ~DateLess(o, d)

\* C1: on a non-empty table get_rate(d) returns the rate stored for d if d
\* is a key, otherwise the rate of the greatest stored date before d if
\* there is one, otherwise the rate of the smallest stored date after d.
C1_NearestDateFallback ==
    (Called /\ WellFormedQuery(date_str) /\ ttm_rates # {}) =>
        LET q == DateOfText(date_str)
        IN  /\ ttm_rate.raised = "none"
            /\ ttm_rate.rate =
                  IF q \in StoredDates THEN RateStoredFor(q)
                  ELSE IF EarlierStored(q) # {} THEN RateStoredFor(Latest(EarlierStored(q)))
                  ELSE RateStoredFor(Earliest(LaterStored(q)))

\* C1 witness: a query strictly between two stored dates was answered
\* with the rate of the earlier one
C1_Witness ==
    /\ Called /\ WellFormedQuery(date_str)
    /\ DateOfText(date_str) \notin StoredDates
    /\ EarlierStored(DateOfText(date_str)) # {}
    /\ LaterStored(DateOfText(date_str)) # {}
    /\ ttm_rate.raised = "none"
    /\ ttm_rate.rate = RateStoredFor(Latest(EarlierStored(DateOfText(date_str))))

\* C2: for a well-formed query date get_rate raises the no-rate error if
\* and only if the table is empty; with at least one entry it returns a rate.
C2_NoRateIffEmptyTable ==
    (Called /\ WellFormedQuery(date_str)) =>
        /\ (ttm_rate.raised = "HTTPException") <=> (ttm_rates = {})
        /\ ttm_rate.raised = "HTTPException" => ttm_rate.status_code = 404
        /\ ttm_rates # {} => ttm_rate.raised = "none"

\* C2 witness: a well-formed query on the empty table got the 404
C2_Witness ==
    /\ Called /\ WellFormedQuery(date_str)
    /\ ttm_rates = {}
    /\ ttm_rate.raised = "HTTPException" /\ ttm_rate.status_code = 404

(***************************************************************************)
(* Properties of a process_csv run (checked under Spec)                    *)
(***************************************************************************)
Null == [null |-> TRUE]

ExchangeProfitOf(t) ==
    IF "exchange_profit" \in DOMAIN t THEN t.exchange_profit ELSE Null

AmountIn(row, column) == ParseAmount(CellText(row[column]))

Nonzero(x) == ~Raised(x) /\ ~x.nan /\ x.num # 0

Parsed(row) ==
    /\ ~Raised(AmountIn(row, "Credit amount"))
    /\ ~Raised(AmountIn(row, "Debit amount"))
    /\ ~Raised(ParseMdy(row["Transaction date"]))

IsCreditRow(row) ==
    Parsed(row) /\ Nonzero(AmountIn(row, "Credit amount")) /\ ~Nonzero(AmountIn(row, "Debit amount"))

IsDebitRow(row) ==
    Parsed(row) /\ Nonzero(AmountIn(row, "Debit amount")) /\ ~Nonzero(AmountIn(row, "Credit amount"))

IsAmbiguousRow(row) ==
    Parsed(row) /\ (Nonzero(AmountIn(row, "Credit amount")) <=> Nonzero(AmountIn(row, "Debit amount")))

\* with no row error so far, transactions[i] is the output of df.rows[i]
RowsAndOutputAligned == errors = <<>> /\ "Debit amount" \in df.columns

\* the credits before row i with no debit between them and row i
PendingBefore(i) ==
    {j \in 1..(i - 1) :
        /\ IsCreditRow(df.rows[j])
        /\ \A k \in (j + 1)..(i - 1) : ~IsDebitRow(df.rows[k])}

Minus(a, b) == Add(a, Mul(Num(-1), b))

\* C3: when a debit is processed, every credit pending at that moment gets
\* an ExchangeProfit on its emitted transaction, with profit_jpy =
\* credit.amount_usd * (debit rate - credit rate) and the debit's date and rate.
C3_DebitSettlesPendingCredits ==
    RowsAndOutputAligned =>
        \A i \in 1..Len(transactions) :
            IsDebitRow(df.rows[i]) =>
                \A j \in PendingBefore(i) :
                    LET p == ExchangeProfitOf(transactions[j])
                        c == transactions[j]
                        d == transactions[i]
                    IN  /\ p # Null
                        /\ p.profit_jpy = Mul(c.amount_usd, Minus(d.ttm_rate, c.ttm_rate))
                        /\ p.next_debit_date = d.date
                        /\ p.next_debit_ttm = d.ttm_rate

\* the credits emitted so far that no debit has settled
PendingCredits ==
    {j \in 1..Len(transactions) :
        IsCreditRow(df.rows[j]) /\ ExchangeProfitOf(transactions[j]) = Null}

\* C4: after processing any debit the pending-credit queue is empty (no
\* emitted credit is left unsettled), whatever the debit's amount.
C4_NoPendingCreditAfterDebit ==
    (RowsAndOutputAligned /\ index >= 1 /\ Len(transactions) = index
        /\ IsDebitRow(df.rows[index])) => PendingCredits = {}

SortedByDate(rows) ==
    \A i, j \in 1..Len(rows) :
        i < j => ~DateLess(ParseMdy(rows[j]["Transaction date"]),
                           ParseMdy(rows[i]["Transaction date"]))

\* C5: in the final output a credit carries an exchange_profit if and only
\* if some debit follows it in the sorted input, and no debit carries one.
C5_ProfitIffLaterDebit ==
    (response.kind = "payload" /\ RowsAndOutputAligned /\ SortedByDate(df.rows)) =>
        \A j \in 1..Len(response.transactions) :
            /\ IsCreditRow(df.rows[j]) =>
                  ((ExchangeProfitOf(response.transactions[j]) # Null)
                      <=> (\E i \in (j + 1)..Len(df.rows) : IsDebitRow(df.rows[i])))
            /\ IsDebitRow(df.rows[j]) => ExchangeProfitOf(response.transactions[j]) = Null

\* C6: a row whose credit and debit amounts are both nonzero, or both
\* zero/blank, fails the batch: the run returns an error, not a payload.
C6_AmbiguousRowFailsBatch ==
    (pc = "done" /\ missing_columns(df) = <<>> /\ "Debit amount" \in df.columns
        /\ \E i \in 1..Len(df.rows) : IsAmbiguousRow(df.rows[i]))
    => response.kind = "error"

\* C7 as claimed: the batch aborts at the first offending row, so the loop
\* never gets past the row of the first recorded error.
C7_FailFast == errors # <<>> => (index = errors[1].row /\ Len(errors) = 1)

LoopEntered == pc = "rows" \/ errors # <<>> \/ response.kind = "payload"

\* a row that fails whatever the rate table holds
Malformed(row) ==
    \/ Raised(ParseMdy(row["Transaction date"]))
    \/ Raised(AmountIn(row, "Credit amount"))

\* C7 as amended: row errors are collected, not fatal to the loop: every row
\* the loop has consumed gave exactly one transaction or one recorded
\* error, a malformed row is recorded and skipped, the loop still consumes
\* every later row, and only after the last row do the recorded errors
\* turn the run into an error.
C7_CollectAll ==
    /\ LoopEntered => Len(transactions) + Len(errors) = index
    /\ (LoopEntered /\ pc = "done") => index = Len(df.rows)
    /\ LoopEntered =>
          \A i \in 1..Len(df.rows) :
              (i <= index /\ Malformed(df.rows[i])) <=>
                  (\E k \in 1..Len(errors) : errors[k].row = i /\ errors[k].error = "ValueError")
    /\ \A k \in 1..Len(errors) : \A l \in 1..Len(errors) : k < l => errors[k].row < errors[l].row
    /\ errors # <<>> => response.kind = IF pc = "done" THEN "error" ELSE "none"

\* C7 witness: a row after the first offending row was appended to the
\* transaction list, and the run then ended in an error
C7_Witness ==
    /\ pc = "done" /\ response.kind = "error"
    /\ errors # <<>> /\ errors[1].row < index
    /\ transactions # <<>>
    /\ transactions[Len(transactions)].date =
           ToIso(ParseMdy(df.rows[index]["Transaction date"]))

PayloadFields == {"transactions", "monthly", "summary"}

\* C8: a run ends in an error or in a payload {transactions, monthly,
\* summary} covering every input row; if any row failed the outcome is an
\* error carrying no payload field.
C8_ErrorOrFullPayload ==
    /\ pc # "done" => response.kind = "none"
    /\ pc = "done" => response.kind \in {"error", "payload"}
    /\ response.kind = "error" => DOMAIN response \cap PayloadFields = {}
    /\ (pc = "done" /\ errors # <<>>) => response.kind = "error"
    /\ response.kind = "payload" =>
          /\ errors = <<>>
          /\ PayloadFields \subseteq DOMAIN response
          /\ Len(response.transactions) = Len(df.rows)
          /\ \A i \in 1..Len(df.rows) :
                response.transactions[i].date =
                    ToIso(ParseMdy(df.rows[i]["Transaction date"]))
          /\ response.summary.totalTransactions = Len(df.rows)

\* C8 witness: some rows were processed successfully, one failed, and the
\* run returned an error
C8_Witness ==
    /\ pc = "done" /\ response.kind = "error"
    /\ errors # <<>> /\ transactions # <<>>

RECURSIVE SumNat(_)
SumNat(s) == IF s = <<>> THEN 0 ELSE SumNat(Tail(s)) + Head(s)

InMonth(txs, month) == SelectSeq(txs, LAMBDA t : t.month = month)

AllCredits == \A i \in 1..Len(df.rows) : IsCreditRow(df.rows[i])

\* C10 as claimed: averageTtmRate is the unweighted mean of the
\* transactions' rates, and 0 when there are no transactions.
C10_UnweightedMeanOfRates ==
    (response.kind = "payload" /\ RowsAndOutputAligned /\ AllCredits) =>
        response.summary.averageTtmRate =
            IF Len(response.transactions) = 0 THEN Num(0)
            ELSE Div(Sum(Rates(response.transactions)), Num(Len(response.transactions)))

\* C10 as amended: averageTtmRate is total JPY over total USD, that is the
\* mean of the rates weighted by amount_usd; it is 0 when the total USD is
\* 0; and a summary is only ever computed over at least one transaction.
C10_AmountWeightedMean ==
    response.kind = "payload" =>
        LET txs == response.transactions
            usd == Sum(AmountsUsd(txs))
            jpy == Sum([i \in 1..Len(txs) |-> Mul(txs[i].amount_usd, txs[i].ttm_rate)])
            avg == response.summary.averageTtmRate
        IN  /\ Len(txs) >= 1
            /\ usd.nan => avg.nan
            /\ (~usd.nan /\ usd.num = 0) => avg = Num(0)
            /\ (~usd.nan /\ usd.num # 0) => (~avg.nan /\ Mul(avg, usd) = jpy)

\* C10 witness: credits of different amounts at different rates, whose
\* average is not the plain mean of the two rates
C10_Witness ==
    /\ response.kind = "payload" /\ RowsAndOutputAligned /\ AllCredits
    /\ Len(response.transactions) = 2
    /\ response.transactions[1].ttm_rate # response.transactions[2].ttm_rate
    /\ response.transactions[1].amount_usd # response.transactions[2].amount_usd
    /\ response.summary.averageTtmRate #
           Div(Sum(Rates(response.transactions)), Num(2))

\* C11: when a required column is absent the run fails before any row is
\* processed (no row normalized, no rate lookup), and the error that
\* reaches the caller is the MissingColumns client error (status 400
\* naming the missing columns), not an error of another kind.
C11_MissingColumnsIsClientError ==
    (pc = "done" /\ df.columns # {} /\ missing_columns(df) # <<>>) =>
        /\ index = 0 /\ transactions = <<>> /\ errors = <<>>
        /\ ~Called
        /\ response.kind = "error"
        /\ response.status_code = 400
        /\ response.detail = "Missing required columns"

\* every content the rate table can have
AllTables == {RateRows(entries) : entries \in SUBSET Sheet}

\* the rates of the returned transactions are those of one table
ResolvedAgainst(table) ==
    \A i \in 1..Len(response.transactions) :
        LET t == response.transactions[i]
            r == GetTtmRate(t.date, table)
        IN  r.raised = "none" /\ Num(r.rate) = t.ttm_rate

\* C12: when fetch_ttm_data updates the rate table while a run is in
\* progress, all rate lookups of that run resolve against a single state
\* of the table, so its output is that of the same run on one snapshot.
C12_RunReadsOneSnapshot ==
    (response.kind = "payload" /\ RowsAndOutputAligned /\ AllCredits) =>
        \E table \in AllTables : ResolvedAgainst(table)

RECURSIVE SumOver(_, _, _)
SumOver(vendors, vt, field) ==
    IF vendors = {} THEN Num(0)
    ELSE LET v == CHOOSE x \in vendors : TRUE
         IN  Add(vt[v][field], SumOver(vendors \ {v}, vt, field))

RECURSIVE CountOver(_, _)
CountOver(vendors, vt) ==
    IF vendors = {} THEN 0
    ELSE LET v == CHOOSE x \in vendors : TRUE
         IN  vt[v].count + CountOver(vendors \ {v}, vt)

OfVendor(txs, vendor) == SelectSeq(txs, LAMBDA t : t.vendor = vendor)

====
